---- MODULE Spec2Model ----
(***************************************************************************)
(* update_remove_headers.py: the safe-update transaction of the OWASP      *)
(* "remove headers" Traefik middleware document.                           *)
(*                                                                         *)
(* One run of main() is a sequential process; its position is pc.  The     *)
(* environment acts between its steps: the wall clock advances (Tick) and  *)
(* Traefik appends lines to its log (LogAppend).  Runs follow one another  *)
(* (NextRun) against the same upstream JSON document.                      *)
(***************************************************************************)
EXTENDS Integers, Sequences, FiniteSets, TLC

\* ------------------------------------------------------------------ bounds
MaxRuns    == 2     \* consecutive runs of main
MaxVersion == 1     \* version timestamps range over Epoch-1 .. MaxVersion
MaxClock   == 1     \* the wall clock outside the monitoring loop
MaxWait    == 1     \* wait_for_errors_time ranges over 0 .. MaxWait
MaxLog     == 1     \* lines Traefik appends to its log during the first run
MaxLogNext == 0     \* lines in the log when another run follows
MaxPasses  == 2     \* the pass counter saturates here
MaxHeaders == 2     \* length of a header list given to the writer alone
MaxLines   == 2     \* lines of a document given to the reader alone

\* ------------------------------------------------------- program constants
URL           == "https://owasp.org/www-project-secure-headers/ci/headers_remove.json"
DATE_FORMAT   == "%Y-%m-%d %H:%M:%S"
UPDATE_STRING == "# Updated on: "
Epoch         == 0          \* datetime.datetime.fromtimestamp(0)
IndentSize    == 2
DEFAULT_MIDDLEWARE_HEADER == "owasp_headers_remove"

Versions == (Epoch - 1) .. MaxVersion

\* ---------------------------------------------------------------- strings
\* A piece of text substituted into an f-string: a plain string, or the
\* rendering of a datetime.  StrDate is str(datetime) of a naive datetime
\* with microsecond 0, which prints as DATE_FORMAT does.
Txt(s)     == [kind |-> "str", s |-> s, n |-> 0]

\* A rendering with datetime.isoformat(), "T" between date and time.
StrDate_Iso(n) == [kind |-> "%Y-%m-%dT%H:%M:%S", s |-> "", n |-> n]

StrDate(n) == [kind |-> DATE_FORMAT, s |-> "", n |-> n]

\* One line of the document: indentation, literal text, substituted value,
\* literal text.
Ln(ind, pre, arg, post) == [ind |-> ind, pre |-> pre, arg |-> arg, post |-> post]

\* datetime.strptime(text, DATE_FORMAT) succeeds on exactly the texts of that
\* format (the value and nothing after it).
StrptimeOk(arg, post) == arg.kind = DATE_FORMAT /\ post = ""

\* -------------------------------------------------------------- the files
NoFile     == [exists |-> FALSE, content |-> <<>>]
File(c)    == [exists |-> TRUE, content |-> c]

\* ------------------------------------------------- get_date_from_yaml_config
StartsWithUpdate(line) == line.ind = 0 /\ line.pre = UPDATE_STRING

RECURSIVE ScanYaml(_, _)
ScanYaml(yaml_lines, i) ==
  IF i > Len(yaml_lines) THEN Epoch
  ELSE IF StartsWithUpdate(yaml_lines[i])
          /\ StrptimeOk(yaml_lines[i].arg, yaml_lines[i].post)
       THEN yaml_lines[i].arg.n
       ELSE ScanYaml(yaml_lines, i + 1)

\* A reader whose loop has no break: the last line that parses wins.
get_date_from_yaml_config_NoBreak(content) ==
  LET P == {i \in 1 .. Len(content) :
              StartsWithUpdate(content[i]) /\ StrptimeOk(content[i].arg, content[i].post)}
  IN IF P = {} THEN Epoch
     ELSE content[CHOOSE i \in P : \A j \in P : j <= i].arg.n

\* Lines 86-98: a line that starts with UPDATE_STRING and does not parse is
\* logged and the loop goes on; the loop breaks at the first one that parses.
get_date_from_yaml_config(content) == ScanYaml(content, 1)

\* -------------------------------------------------------- write_yaml_config
HeaderLines(hs) == [i \in 1 .. Len(hs) |-> Ln(IndentSize * 5, "", Txt(hs[i]), ": \"\"")]

string_2d(middleware_name, rh) ==
  << Ln(IndentSize * 0, "# DO NOT MODIFY. THIS FILE IS GENERATED FROM ", Txt(URL), ""),
     Ln(IndentSize * 0, UPDATE_STRING, StrDate(rh.last_update_utc), ""),
     Ln(IndentSize * 0, "http:", Txt(""), ""),
     Ln(IndentSize * 1, "middlewares:", Txt(""), ""),
     Ln(IndentSize * 2, "", Txt(middleware_name), ":"),
     Ln(IndentSize * 3, "headers:", Txt(""), ""),
     Ln(IndentSize * 4, "customResponseHeaders:", Txt(""), "") >>
  \o HeaderLines(rh.headers)

\* A writer whose version line the reader does not recognise.
write_yaml_config_OtherPrefix(middleware_name, rh) ==
  [string_2d(middleware_name, rh) EXCEPT ![2].pre = "# Updated: "]

\* Lines 124-128: every row of string_2d, one line each.
write_yaml_config(middleware_name, rh) == string_2d(middleware_name, rh)

\* ------------------------------------------------------------ RemoveHeaders
\* The body curl printed.  tool: `curl -V` printed a curl banner;  raw: what
\* get_data returned ("" on a non-zero exit or an empty body);  date and
\* headers: the two fields of the JSON object.
DateFields   == {"missing", "null", "malformed", "number", "ok"}
HeaderFields == {"missing", "null", "list"}

Bodies ==
  {[tool |-> FALSE, raw |-> "empty", date |-> "missing", headers |-> "missing"],
   [tool |-> TRUE,  raw |-> "empty", date |-> "missing", headers |-> "missing"],
   [tool |-> TRUE,  raw |-> "notjson", date |-> "missing", headers |-> "missing"]}
  \cup [tool : {TRUE}, raw : {"object"}, date : DateFields, headers : HeaderFields]

\* A validation that forgets the check of line 61.
RemoveHeaders_NoHeadersCheck(data) ==
  IF data.raw = "notjson" THEN "ValueError"
  ELSE IF data.date = "missing" THEN "KeyError"
  ELSE IF data.date = "null" THEN "ValueError"
  ELSE IF data.date = "number" THEN "TypeError"
  ELSE IF data.date = "malformed" THEN "ValueError"
  ELSE IF data.headers = "missing" THEN "KeyError"
  ELSE "ok"

\* RemoveHeaders.__init__: "ok", or the exception it raises.
RemoveHeaders(data) ==
  IF data.raw = "notjson" THEN "ValueError"            \* json.JSONDecodeError
  ELSE IF data.date = "missing" THEN "KeyError"
  ELSE IF data.date = "null" THEN "ValueError"
  ELSE IF data.date = "number" THEN "TypeError"        \* strptime of a non-string
  ELSE IF data.date = "malformed" THEN "ValueError"
  ELSE IF data.headers = "missing" THEN "KeyError"
  ELSE IF data.headers = "null" THEN "ValueError"
  ELSE "ok"

\* What main does with the body before it reads the local version:
\* "decide" when it goes on, "return1" when it logs and returns 1, "raise"
\* when an exception leaves main (the __main__ block then exits with 1).
FetchResult(data) ==
  IF ~data.tool THEN "return1"
  ELSE IF data.raw = "empty" THEN "return1"
  ELSE IF RemoveHeaders(data) = "ok" THEN "decide"
  ELSE IF RemoveHeaders(data) = "ValueError" THEN "return1"
  ELSE "raise"

\* ------------------------------------------------------------------ state
VARIABLES
  run,        \* number of the current run of main
  pc,         \* position of the current run
  remote,     \* the upstream JSON document: [last_update_utc, headers]
  cfg,        \* Config: [restart_traefik, traefik_log, wait_for_errors_time]
  doc,        \* the file at config.config_path
  data,       \* the body fetched in this run
  tmp_dir,    \* "None", "open", "cleaned" (line 255) or "finalized"
  old_file,   \* the backup copy inside tmp_dir (a file, or NoFile)
  clock,      \* the wall clock
  timestamp_before_writing,
  end_time,
  log,        \* the file at config.traefik_log, a sequence of lines
  fpos,       \* lines of the log the open file object has read
  log_msg,    \* the markers the current log message contains
  passes,     \* passes of the outer while loop in this run
  restarts,   \* invocations of the restart command in this run
  writes,     \* calls of write_yaml_config in this run
  backups,    \* backup copies made in this run
  ret,        \* exit code of the process: -1 while running
  logged,     \* messages this run logged
  docAtStart, \* the document when this run started
  cause,      \* what raised into the big except: "none", "write", "restart", "watch"
  watch,      \* the log watcher in this run: "none", "ok", or what it raised
  prev,       \* outcome of the previous run
  budget,     \* lines Traefik writes to its log during the first run
  args,       \* the command line: [restart_traefik (-r given), traefik_log, wait_for_errors_time]
  last_update_utc, \* the version main read from the document (line 158)
  revert,     \* the restart inside the except block: "none", or how it ended
  traefik_restart_proc \* the restart after the write: "none", or how it ended

vars == << run, pc, remote, cfg, doc, data, tmp_dir, old_file, clock,
           timestamp_before_writing, end_time, log, fpos, log_msg, passes,
           restarts, writes, backups, ret, logged, docAtStart, cause, watch, prev,
           budget, args, last_update_utc, revert, traefik_restart_proc >>

NoBody == [tool |-> FALSE, raw |-> "none", date |-> "missing", headers |-> "missing"]
NoMsg  == [err |-> FALSE, mw |-> FALSE, fn |-> FALSE]

\* --------------------------------------------------------------- the inputs
HeaderSets == {<<"Server", "X-Powered-By">>}
OldHeaders == <<"Server">>

Generated(v) ==
  write_yaml_config(DEFAULT_MIDDLEWARE_HEADER, [last_update_utc |-> v, headers |-> OldHeaders])

\* A hand-written document without a version line, and generated documents whose
\* version line was damaged by an edit.
HandWritten == << Ln(0, "http:", Txt(""), "") >>
Damaged(v)  == << Ln(0, UPDATE_STRING, Txt("yesterday"), "") >> \o Generated(v)

InitialDocs ==
  {NoFile, File(Generated(Epoch)), File(HandWritten), File(Damaged(MaxVersion))}

\* The command lines: -r/--restart-traefik given or not, --traefik-log given
\* or not, --wait-for-errors-time.  The wait is read only when a Traefik log
\* is given.
Args ==
  {a \in [restart_traefik : BOOLEAN, traefik_log : BOOLEAN,
          wait_for_errors_time : 0 .. MaxWait] :
     a.traefik_log \/ a.wait_for_errors_time = 0}

\* argparse, action="store_false" (line 425): the value is True when the
\* option is absent and False when it is given.
store_false(given) == ~given

\* Lines 429-440: the Config that cli() builds from the command line.
cli(a) ==
  [restart_traefik |-> store_false(a.restart_traefik),
   traefik_log |-> a.traefik_log,
   wait_for_errors_time |-> a.wait_for_errors_time]

\* The state of one run before its first step.
RunStart ==
  /\ pc = "fetch"
  /\ data = NoBody
  /\ tmp_dir = "None"
  /\ old_file = NoFile
  /\ timestamp_before_writing = 0
  /\ end_time = 0
  /\ fpos = 0
  /\ log_msg = NoMsg
  /\ passes = 0
  /\ restarts = 0
  /\ writes = 0
  /\ backups = 0
  /\ ret = -1
  /\ logged = {}
  /\ cause = "none"
  /\ watch = "none"
  /\ last_update_utc = Epoch
  /\ revert = "none"
  /\ traefik_restart_proc = "none"

InitRun ==
  /\ run = 1
  /\ docAtStart = doc
  /\ clock = 0
  /\ log = <<>>
  /\ prev = "none"
  /\ RunStart

Init ==
  /\ remote \in [last_update_utc : Versions, headers : HeaderSets]
  /\ args \in Args
  /\ cfg = cli(args)
  /\ doc \in InitialDocs
  /\ budget = MaxLog
  /\ InitRun

\* The same program with a busier Traefik, watched over one generated document.
InitLog ==
  /\ remote \in [last_update_utc : {MaxVersion}, headers : HeaderSets]
  /\ args \in {a \in Args : a.traefik_log}
  /\ cfg = cli(args)
  /\ doc \in {NoFile, File(Generated(Epoch))}
  /\ budget = MaxLog + 1
  /\ InitRun


\* ------------------------------------------------------------- main: fetch
\* Lines 132-151: look for curl, fetch the body, validate it.
Fetch ==
  /\ pc = "fetch"
  /\ \E b \in Bodies :
       /\ data' = b
       /\ CASE FetchResult(b) = "decide" ->
                 /\ pc' = "decide"
                 /\ UNCHANGED << ret, logged >>
            [] FetchResult(b) = "return1" ->
                 /\ pc' = "done"
                 /\ ret' = 1
                 /\ logged' = logged \cup {"fetch_error"}
            [] OTHER ->
                 /\ pc' = "done"
                 /\ ret' = 1
                 /\ logged' = logged \cup {"script_error"}
  /\ UNCHANGED << budget, args, traefik_restart_proc, last_update_utc, revert, run, remote, cfg, doc, tmp_dir, old_file, clock,
                  timestamp_before_writing, end_time, log, fpos, log_msg, passes,
                  restarts, writes, backups, docAtStart, cause, watch, prev >>

\* ------------------------------------------------------------ main: decide
\* Lines 156-177: "uptodate" (return 0), "backup" (copy, then write) or
\* "first" (no document: write without a backup).
\* A comparison with > where line 161 has >=.
DecideStep_Strict(d, web_version) ==
  IF d.exists
  THEN IF get_date_from_yaml_config(d.content) > web_version.last_update_utc
       THEN "uptodate"
       ELSE "backup"
  ELSE "first"

\* A decision that compares the default timestamp of line 78 when there is
\* no document.
DecideStep_CompareAlways(d, web_version) ==
  IF (IF d.exists THEN get_date_from_yaml_config(d.content) ELSE Epoch)
       >= web_version.last_update_utc
  THEN "uptodate"
  ELSE IF d.exists THEN "backup" ELSE "first"

DecideStep(d, web_version) ==
  IF d.exists
  THEN IF get_date_from_yaml_config(d.content) >= web_version.last_update_utc
       THEN "uptodate"
       ELSE "backup"
  ELSE "first"

\* tempfile.TemporaryDirectory() (line 157) registers a finalizer on the
\* object: when main is left without the cleanup() of line 255, the directory
\* is removed as the object is destroyed (with a ResourceWarning), at the
\* latest when the interpreter exits.
Finalize_Leak(tmp) == tmp

Finalize(tmp) == IF tmp = "open" THEN "finalized" ELSE tmp

Decide ==
  /\ pc = "decide"
  /\ LET step == DecideStep(doc, remote) IN
       /\ tmp_dir' = IF step = "first" THEN "None"
                     ELSE IF step = "uptodate" THEN Finalize("open")
                     ELSE "open"
       /\ last_update_utc' = IF step = "first" THEN last_update_utc
                             ELSE get_date_from_yaml_config(doc.content)
       /\ old_file' = IF step = "backup" THEN File(doc.content) ELSE NoFile
       /\ backups' = IF step = "backup" THEN backups + 1 ELSE backups
       /\ pc' = IF step = "uptodate" THEN "done" ELSE "write"
       /\ ret' = IF step = "uptodate" THEN 0 ELSE ret
       /\ logged' = IF step = "uptodate" THEN logged \cup {"uptodate"} ELSE logged
  /\ UNCHANGED << budget, args, traefik_restart_proc, revert, run, remote, cfg, doc, data, clock,
                  timestamp_before_writing, end_time, log, fpos, log_msg, passes,
                  restarts, writes, docAtStart, cause, watch, prev >>

\* ------------------------------------------------------------- main: write
\* Lines 181-190.  open(path, "w") fails (k = -1, the file is as it was), a
\* write fails after k lines, or all Len lines are written.
Write ==
  /\ pc = "write"
  /\ timestamp_before_writing' =
       IF cfg.traefik_log THEN clock ELSE timestamp_before_writing
  /\ writes' = writes + 1
  /\ LET new == write_yaml_config(DEFAULT_MIDDLEWARE_HEADER, remote) IN
     \E k \in -1 .. Len(new) :
       /\ doc' = IF k = -1 THEN doc ELSE File(SubSeq(new, 1, k))
       /\ IF k = Len(new)
          THEN /\ pc' = IF cfg.restart_traefik THEN "restart" ELSE "monitor"
               /\ cause' = cause
          ELSE /\ pc' = "rollback"
               /\ cause' = "write"
  /\ UNCHANGED << budget, args, traefik_restart_proc, last_update_utc, revert, run, remote, cfg, data, tmp_dir, old_file, clock, end_time, log,
                  fpos, log_msg, passes, restarts, backups, ret, logged,
                  docAtStart, watch, prev >>

\* ----------------------------------------------------------- main: restart
\* subprocess.run of the restart command: exit code 0, another exit code,
\* or the command cannot be started (OSError).
RestartResults == {"zero", "nonzero", "oserror"}

\* A restart whose exit code is not looked at.
RestartRaises_Unchecked(r) == r = "oserror"

\* Lines 193-196: subprocess.run raises OSError, check_returncode raises
\* CalledProcessError on a non-zero exit code.
RestartRaises(r) == r # "zero"

\* Lines 192-196.
Restart ==
  /\ pc = "restart"
  /\ restarts' = restarts + 1
  /\ \E r \in RestartResults :
       /\ traefik_restart_proc' = r
       /\ IF RestartRaises(r)
          THEN pc' = "rollback" /\ cause' = "restart"
          ELSE pc' = "monitor" /\ cause' = cause
  /\ UNCHANGED << budget, args, last_update_utc, revert, run, remote, cfg, doc, data, tmp_dir, old_file, clock,
                  timestamp_before_writing, end_time, log, fpos, log_msg, passes,
                  writes, backups, ret, logged, docAtStart, watch, prev >>

\* ----------------------------------------------------------- main: monitor
\* Lines 199-205: without a Traefik log there is nothing to watch.
Monitor ==
  /\ pc = "monitor"
  /\ IF cfg.traefik_log
     THEN /\ end_time' = clock + cfg.wait_for_errors_time
          /\ fpos' = 0
          /\ log_msg' = NoMsg
          /\ pc' = "loop"
     ELSE /\ pc' = "finish"
          /\ UNCHANGED << end_time, fpos, log_msg >>
  /\ UNCHANGED << budget, args, traefik_restart_proc, last_update_utc, revert, run, remote, cfg, doc, data, tmp_dir, old_file, clock,
                  timestamp_before_writing, log, passes, restarts, writes,
                  backups, ret, logged, docAtStart, cause, watch, prev >>

\* The markers a log line contains.
MsgOf(line) == [err |-> line.err, mw |-> line.mw, fn |-> line.fn]
\* log_msg += f"\n{line}"
MsgAppend(msg, line) ==
  [err |-> msg.err \/ line.err, mw |-> msg.mw \/ line.mw, fn |-> msg.fn \/ line.fn]

\* Lines 218-226, for a line whose first field parsed as an aware datetime.
FoundError(T0, timestamp, msg) == T0 <= timestamp /\ msg.err /\ (msg.mw \/ msg.fn)

\* Lines 207-229: the for loop over the lines the file object has not read
\* yet.  A first field datetime.fromisoformat rejects makes the line a
\* continuation; one without a UTC offset parses to a naive datetime, and
\* comparing it with the aware timestamp_before_writing raises TypeError.
RECURSIVE ScanLines(_, _, _, _)
ScanLines(lines, pos, msg, T0) ==
  IF pos >= Len(lines) THEN [pos |-> pos, msg |-> msg, exc |-> "none"]
  ELSE LET line == lines[pos + 1] IN
       IF line.ts.k = "none"
       THEN ScanLines(lines, pos + 1, MsgAppend(msg, line), T0)
       ELSE IF line.ts.k = "naive"
       THEN [pos |-> pos + 1, msg |-> MsgOf(line), exc |-> "TypeError"]
       ELSE IF FoundError(T0, line.ts.t, MsgOf(line))
       THEN [pos |-> pos + 1, msg |-> MsgOf(line), exc |-> "RuntimeError"]
       ELSE ScanLines(lines, pos + 1, MsgOf(line), T0)

\* Line 206.
LoopCond(now, end, wait) == now <= end \/ wait = 0
\* Lines 230-232.
BreakAfterPass(wait) == wait = 0

Bump(n) == IF n < MaxPasses THEN n + 1 ELSE n

\* Lines 206-235: one test of the while condition and, when it holds, one
\* pass of the for loop.
WatchPass ==
  /\ pc = "loop"
  /\ IF LoopCond(clock, end_time, cfg.wait_for_errors_time)
     THEN LET r == ScanLines(log, fpos, log_msg, timestamp_before_writing) IN
            /\ passes' = Bump(passes)
            /\ fpos' = r.pos
            /\ log_msg' = r.msg
            /\ IF r.exc # "none"
               THEN pc' = "rollback" /\ cause' = "watch" /\ watch' = r.exc
               ELSE IF BreakAfterPass(cfg.wait_for_errors_time)
               THEN pc' = "finish" /\ cause' = cause /\ watch' = "ok"
               ELSE pc' = "loop" /\ cause' = cause /\ watch' = watch
     ELSE /\ pc' = "finish"
          /\ watch' = "ok"
          /\ UNCHANGED << passes, fpos, log_msg, cause >>
  /\ UNCHANGED << budget, args, traefik_restart_proc, last_update_utc, revert, run, remote, cfg, doc, data, tmp_dir, old_file, clock,
                  timestamp_before_writing, end_time, log, restarts, writes,
                  backups, ret, logged, docAtStart, prev >>

\* ---------------------------------------------------------- main: rollback
\* Lines 242-247: the document after the just-written one is removed and the
\* backup, if there is one, is copied back.
\* A rollback that removes the new document and copies nothing back.
Restored_NoCopy(tmp, old) == NoFile

Restored(tmp, old) == IF tmp # "None" /\ old.exists THEN File(old.content) ELSE NoFile

\* Lines 246-249: the restart of the except block sits inside the if that
\* copies the backup back.
RestartsInRollback(tmp, old, restart_traefik) ==
  tmp # "None" /\ old.exists /\ restart_traefik

\* Lines 237-252.  The restart of line 250 is not checked for its exit code;
\* an OSError from it leaves main, and the __main__ block logs it and exits
\* with 1.
Rollback ==
  /\ pc = "rollback"
  /\ doc' = Restored(tmp_dir, old_file)
  /\ IF RestartsInRollback(tmp_dir, old_file, cfg.restart_traefik)
     THEN /\ restarts' = restarts + 1
          /\ \E r \in RestartResults :
               /\ revert' = r
               /\ IF r = "oserror"
                  THEN /\ pc' = "done"
                       /\ ret' = 1
                       /\ logged' = logged \cup {"reverting", "script_error"}
                       /\ tmp_dir' = Finalize(tmp_dir)
                  ELSE /\ pc' = "finish"
                       /\ ret' = ret
                       /\ logged' = logged \cup {"reverting"}
                       /\ tmp_dir' = tmp_dir
     ELSE /\ pc' = "finish"
          /\ logged' = logged \cup {"reverting"}
          /\ UNCHANGED << restarts, ret, revert, tmp_dir >>
  /\ UNCHANGED << budget, args, traefik_restart_proc, last_update_utc, run, remote, cfg, data, old_file, clock,
                  timestamp_before_writing, end_time, log, fpos, log_msg, passes,
                  writes, backups, docAtStart, cause, watch, prev >>

\* ------------------------------------------------------------ main: finish
\* Lines 254-258, reached after the try block and after the except block.
Finish ==
  /\ pc = "finish"
  /\ tmp_dir' = IF tmp_dir # "None" THEN "cleaned" ELSE tmp_dir
  /\ logged' = logged \cup {"success"}
  /\ ret' = 0
  /\ pc' = "done"
  /\ UNCHANGED << budget, args, traefik_restart_proc, last_update_utc, revert, run, remote, cfg, doc, data, old_file, clock,
                  timestamp_before_writing, end_time, log, fpos, log_msg, passes,
                  restarts, writes, backups, docAtStart, cause, watch, prev >>

\* ---------------------------------------------------------------- outcomes
Outcome ==
  IF pc # "done" THEN "running"
  ELSE IF "reverting" \in logged THEN "rolledback"
  ELSE IF "uptodate" \in logged THEN "uptodate"
  ELSE IF "success" \in logged THEN "updated"
  ELSE "failed"

\* The next invocation of the script, against the same upstream document.
NextRun ==
  /\ pc = "done"
  /\ run < MaxRuns
  /\ Len(log) <= MaxLogNext
  /\ run' = run + 1
  /\ prev' = Outcome
  /\ docAtStart' = doc
  /\ pc' = "fetch"
  /\ data' = NoBody
  /\ tmp_dir' = "None"
  /\ old_file' = NoFile
  /\ timestamp_before_writing' = 0
  /\ end_time' = 0
  /\ fpos' = 0
  /\ log_msg' = NoMsg
  /\ passes' = 0
  /\ restarts' = 0
  /\ writes' = 0
  /\ backups' = 0
  /\ ret' = -1
  /\ logged' = {}
  /\ cause' = "none"
  /\ watch' = "none"
  /\ last_update_utc' = Epoch
  /\ revert' = "none"
  /\ traefik_restart_proc' = "none"
  /\ UNCHANGED << budget, args, remote, cfg, doc, clock, log >>

\* ---------------------------------------------------------- the environment
\* The clock is read at lines 184, 203 and 206 and by Traefik when it stamps
\* a line, all of them between the write and the end of the watch.  Outside
\* the while loop it is capped; inside, with a positive wait, it can always
\* pass end_time.
Watching == cfg.traefik_log /\ pc \in {"write", "monitor", "loop"}

Tick ==
  /\ Watching
  /\ clock < MaxClock \/ (pc = "loop" /\ clock <= end_time)
  /\ clock' = clock + 1
  /\ UNCHANGED << budget, args, traefik_restart_proc, last_update_utc, revert, run, pc, remote, cfg, doc, data, tmp_dir, old_file,
                  timestamp_before_writing, end_time, log, fpos, log_msg, passes,
                  restarts, writes, backups, ret, logged, docAtStart, cause,
                  watch, prev >>

\* The lines Traefik writes at time t.  A record's first line is stamped t
\* with a UTC offset; a continuation line has no timestamp; the last line is
\* stamped without an offset.  err, mw, fn: the line contains "ERR", the
\* middleware name, the name of the document.
LogLine(k, t, err, mw, fn) ==
  [ts |-> [k |-> k, t |-> t], err |-> err, mw |-> mw, fn |-> fn]

LogLines(t) ==
  { LogLine("aware", t, FALSE, FALSE, FALSE),
    LogLine("aware", t, TRUE, TRUE, FALSE),
    LogLine("aware", t, TRUE, FALSE, TRUE),
    LogLine("none", 0, TRUE, TRUE, FALSE),
    LogLine("naive", t, FALSE, FALSE, FALSE) }

\* The exploration follows a busy log through one run, and consecutive runs
\* with a quiet log.
LogBudget == IF run = 1 THEN budget ELSE MaxLogNext

LogAppend ==
  /\ Watching
  /\ Len(log) < LogBudget
  /\ \E line \in LogLines(clock) : log' = Append(log, line)
  /\ UNCHANGED << budget, args, traefik_restart_proc, last_update_utc, revert, run, pc, remote, cfg, doc, data, tmp_dir, old_file, clock,
                  timestamp_before_writing, end_time, fpos, log_msg, passes,
                  restarts, writes, backups, ret, logged, docAtStart, cause,
                  watch, prev >>

Next ==
  \/ Fetch
  \/ Decide
  \/ Write
  \/ Restart
  \/ Monitor
  \/ WatchPass
  \/ Rollback
  \/ Finish
  \/ NextRun
  \/ Tick
  \/ LogAppend

Spec == Init /\ [][Next]_vars

SpecLog == InitLog /\ [][Next]_vars

\* ------------------------------------------ the writer and the reader alone
\* write_yaml_config and get_date_from_yaml_config applied outside main: to
\* every RemoveHeaders with a header list of up to MaxHeaders names, and to
\* every document of up to MaxLines lines.
HeaderNames == {"Server", UPDATE_STRING}
HeaderLists == UNION {[1 .. k -> HeaderNames] : k \in 0 .. MaxHeaders}

\* Lines of a document: a version line for each version; a version line whose
\* text is no timestamp; one with text after the timestamp; an indented one;
\* a line of YAML.
YamlLines ==
  {Ln(0, UPDATE_STRING, StrDate(v), "") : v \in Versions}
  \cup {Ln(0, UPDATE_STRING, Txt("yesterday"), ""),
        Ln(0, UPDATE_STRING, StrDate(MaxVersion), " UTC"),
        Ln(IndentSize, UPDATE_STRING, StrDate(MaxVersion), ""),
        Ln(0, "http:", Txt(""), "")}

YamlDocs == UNION {[1 .. k -> YamlLines] : k \in 0 .. MaxLines}

InitAlone ==
  /\ remote \in [last_update_utc : Versions, headers : HeaderLists]
  /\ doc \in {File(c) : c \in YamlDocs}
  /\ args = [restart_traefik |-> TRUE, traefik_log |-> FALSE, wait_for_errors_time |-> 0]
  /\ cfg = cli(args)
  /\ budget = 0
  /\ run = 1
  /\ docAtStart = doc
  /\ clock = 0
  /\ log = <<>>
  /\ prev = "none"
  /\ pc = "alone"
  /\ data = NoBody
  /\ tmp_dir = "None"
  /\ old_file = NoFile
  /\ timestamp_before_writing = 0
  /\ end_time = 0
  /\ fpos = 0
  /\ log_msg = NoMsg
  /\ passes = 0
  /\ restarts = 0
  /\ writes = 0
  /\ backups = 0
  /\ ret = -1
  /\ logged = {}
  /\ cause = "none"
  /\ watch = "none"
  /\ last_update_utc = Epoch
  /\ revert = "none"
  /\ traefik_restart_proc = "none"

\* write_yaml_config(config_path, middleware_header, web_version), all lines
\* written.
WriteAlone ==
  /\ pc = "alone"
  /\ writes = 0
  /\ doc' = File(write_yaml_config(DEFAULT_MIDDLEWARE_HEADER, remote))
  /\ writes' = writes + 1
  /\ UNCHANGED << budget, args, traefik_restart_proc, last_update_utc, revert, run, pc, remote, cfg, data,
                  tmp_dir, old_file, clock, timestamp_before_writing, end_time, log,
                  fpos, log_msg, passes, restarts, backups, ret, logged, docAtStart,
                  cause, watch, prev >>

\* last_update_utc = get_date_from_yaml_config(config_path)
ReadAlone ==
  /\ pc = "alone"
  /\ last_update_utc' = get_date_from_yaml_config(doc.content)
  /\ pc' = "read"
  /\ UNCHANGED << budget, args, traefik_restart_proc, revert, run, remote, cfg, doc, data, tmp_dir, old_file,
                  clock, timestamp_before_writing, end_time, log, fpos, log_msg,
                  passes, restarts, writes, backups, ret, logged, docAtStart, cause,
                  watch, prev >>

NextAlone ==
  \/ WriteAlone
  \/ ReadAlone

SpecAlone == InitAlone /\ [][NextAlone]_vars


\* ===================================================================== claims
RolledBack == "reverting" \in logged
Fetched    == data # NoBody /\ FetchResult(data) = "decide"
Decided    == Fetched /\ pc \notin {"fetch", "decide"}
LocalVersion == get_date_from_yaml_config(docAtStart.content)

\* C1: rollback exactness.  When a run ends in which the document existed and
\* a failure came after the new document was written (the restart command
\* failed, or the log watcher raised), the document is what it was when the
\* run started.
C1_RollbackExact ==
  (pc = "done" /\ docAtStart.exists /\ cause \in {"restart", "watch"})
    => doc = docAtStart

C1_Witness ==
  /\ pc = "done"
  /\ docAtStart.exists
  /\ cause = "watch"
  /\ watch = "RuntimeError"
  /\ writes = 1
  /\ doc = docAtStart

\* C2: a run that entered the rollback path ends as a failure: its exit code
\* is not the 0 of a successful update or of an up-to-date run, and it does
\* not log "Update was successful".
C2_RollbackFails ==
  (pc = "done" /\ RolledBack) => (ret # 0 /\ "success" \notin logged)

\* C3: the decide step.  With a document whose version is at least the fetched
\* one the run ends with exit code 0 right after the comparison: no backup, no
\* write, no restart, no pass over the log, the document as it was; in every
\* run.  With a smaller version the run makes the backup and goes on to write.
C3_Decide ==
  (Decided /\ docAtStart.exists) =>
    IF LocalVersion >= remote.last_update_utc
    THEN /\ pc = "done"
         /\ ret = 0
         /\ backups = 0 /\ writes = 0 /\ restarts = 0
         /\ passes = 0 /\ watch = "none"
         /\ doc = docAtStart
    ELSE /\ backups = 1
         /\ old_file = docAtStart
         /\ "uptodate" \notin logged
         /\ pc = "write" \/ writes = 1

C3_Witness ==
  /\ run = MaxRuns
  /\ prev = "uptodate"
  /\ pc = "done"
  /\ docAtStart.exists
  /\ LocalVersion = remote.last_update_utc
  /\ "uptodate" \in logged

\* C4 as stated: whatever the outcome of a first run that fetched the upstream
\* document (up to date, updated, rolled back), the run after it writes nothing
\* and restarts nothing.
C4_SecondRunNoWrite ==
  (run >= 2 /\ prev # "failed") => (writes = 0 /\ restarts = 0)

\* C4, amended: after a run that ended up to date or with a successful update
\* (the rollback path not entered), the next run against the same upstream
\* document makes no backup, writes nothing and restarts nothing, and when its
\* fetch succeeds it ends at the decide step with the document unchanged.
C4_Idempotent ==
  (run >= 2 /\ prev \in {"uptodate", "updated"}) =>
    /\ backups = 0 /\ writes = 0 /\ restarts = 0
    /\ doc = docAtStart
    /\ Decided => (pc = "done" /\ ret = 0 /\ "uptodate" \in logged)

C4_Witness ==
  /\ run = 2
  /\ prev = "updated"
  /\ pc = "done"
  /\ "uptodate" \in logged
  /\ doc = File(write_yaml_config(DEFAULT_MIDDLEWARE_HEADER, remote))

\* C5: a run whose fetch fails (no curl, curl fails or prints nothing) or whose
\* body fails validation (not JSON, last_update_utc or headers missing or null,
\* last_update_utc not a timestamp of DATE_FORMAT) ends as a failure with the
\* document untouched: no temporary directory, no backup, no write, no
\* restart, no pass over the log.
C5_BadBody(b) ==
  \/ ~b.tool
  \/ b.raw \in {"empty", "notjson"}
  \/ b.date \in {"missing", "null", "malformed", "number"}
  \/ b.headers \in {"missing", "null"}

C5_NoMutation ==
  (data # NoBody /\ C5_BadBody(data)) =>
    /\ pc = "done"
    /\ ret = 1
    /\ doc = docAtStart
    /\ tmp_dir = "None" /\ ~old_file.exists
    /\ backups = 0 /\ writes = 0 /\ restarts = 0 /\ passes = 0

C5_Witness ==
  /\ pc = "done"
  /\ data.raw = "object" /\ data.date = "ok" /\ data.headers = "null"
  /\ docAtStart.exists
  /\ LocalVersion < remote.last_update_utc
  /\ doc = docAtStart
  /\ ret = 1

\* C6: the first run.  Without a document, once fetch and validation succeeded,
\* the run goes to the write whatever the fetched version is, makes no backup,
\* and a rollback restores nothing.
C6_FirstRun ==
  (Decided /\ ~docAtStart.exists) =>
    /\ pc = "write" \/ writes = 1
    /\ "uptodate" \notin logged
    /\ backups = 0 /\ tmp_dir = "None" /\ ~old_file.exists
    /\ (pc = "done" /\ RolledBack) => ~doc.exists

C6_Witness ==
  /\ ~docAtStart.exists
  /\ remote.last_update_utc <= Epoch
  /\ pc = "done"
  /\ writes = 1
  /\ RolledBack
  /\ ~doc.exists

\* ------------------------------------------------- records of the Traefik log
\* The line that starts the record line i of the log belongs to: the nearest
\* line at or before i whose first field is a timestamp (0: there is none).
RECURSIVE RecordStart(_, _)
RecordStart(lines, i) ==
  IF i = 0 THEN 0
  ELSE IF lines[i].ts.k # "none" THEN i
  ELSE RecordStart(lines, i - 1)

\* The lines among the first n of the record that starts at line j.
RecordLines(lines, n, j) == {i \in j .. n : RecordStart(lines, i) = j}

HasMarkers(lines, n, j) ==
  /\ \E i \in RecordLines(lines, n, j) : lines[i].err
  /\ \E i \in RecordLines(lines, n, j) : lines[i].mw \/ lines[i].fn

\* A regression signal: a record stamped at or after T0 whose text holds the
\* error marker and the middleware name or the name of the document.
IsSignal(lines, n, j, T0) ==
  /\ lines[j].ts.k = "aware"
  /\ lines[j].ts.t >= T0
  /\ HasMarkers(lines, n, j)

Scanned == {j \in 1 .. fpos : log[j].ts.k # "none"}
SignalScanned == \E j \in Scanned : IsSignal(log, fpos, j, timestamp_before_writing)
WatchEnded == watch # "none"

\* C7: the watcher fails with a detected regression exactly when a record it
\* scanned is a regression signal, the record being its first line together
\* with the continuation lines after it.
C7_SignalIff ==
  WatchEnded => ((watch = "RuntimeError") <=> SignalScanned)

\* C8: a record stamped before T0 that holds both markers never makes the
\* watcher fail, and such a record stamped at or after T0 always does.
C8_Boundary ==
  WatchEnded =>
    \A j \in Scanned :
      (log[j].ts.k = "aware" /\ HasMarkers(log, fpos, j)) =>
        IF log[j].ts.t < timestamp_before_writing
        THEN ~(watch = "RuntimeError" /\ RecordStart(log, fpos) = j)
        ELSE watch = "RuntimeError"

\* C9: with a wait of 0 the watcher makes exactly one pass, whatever the clock
\* does, and returns success when that pass found no regression signal.
C9_ZeroWait ==
  (WatchEnded /\ cfg.wait_for_errors_time = 0) =>
    /\ passes = 1
    /\ ~SignalScanned => watch = "ok"

\* C10: with a positive wait the watcher fails as soon as it has scanned a
\* regression signal, and otherwise returns success once the deadline T0 + W
\* has passed.
C10_Bounded ==
  (WatchEnded /\ cfg.wait_for_errors_time > 0) =>
    IF SignalScanned
    THEN watch = "RuntimeError"
    ELSE watch = "ok" /\ clock > timestamp_before_writing + cfg.wait_for_errors_time

\* C11: when a run ends (up to date, updated, rolled back, or left by an error
\* inside the rollback), the temporary directory it created is not held any
\* more: a run that found a document created one and it has been removed, a
\* run that found none never had one.
C11_Released ==
  pc = "done" =>
    /\ tmp_dir # "open"
    /\ (Decided /\ docAtStart.exists) => tmp_dir \in {"cleaned", "finalized"}

C11_Witness ==
  /\ pc = "done"
  /\ "uptodate" \in logged
  /\ ret = 0
  /\ tmp_dir = "finalized"

\* C12: a run invokes the restart command only when -r/--restart-traefik was
\* given on the command line; without the option the configuration has
\* restart disabled.
C12_OptIn ==
  restarts > 0 => (args.restart_traefik /\ cfg.restart_traefik)

\* C13: the version round trip.  For every RemoveHeaders, whatever its version
\* and its header list, the version read back from the document that
\* write_yaml_config wrote is the version that was written.
C13_RoundTrip ==
  (pc = "read" /\ writes = 1) => last_update_utc = remote.last_update_utc

C13_Witness ==
  /\ pc = "read"
  /\ writes = 1
  /\ Len(remote.headers) = MaxHeaders
  /\ remote.headers[1] = UPDATE_STRING
  /\ remote.last_update_utc = MaxVersion
  /\ get_date_from_yaml_config(docAtStart.content) = Epoch - 1
  /\ last_update_utc = MaxVersion

\* C14: once the except block has run, the restart command was invoked inside
\* it exactly when restart is enabled: with or without a backup, whatever
\* raised.
C14_RollbackRestart ==
  (RolledBack /\ pc \in {"finish", "done"}) =>
    (cfg.restart_traefik <=> revert # "none")

\* C15: a restart that fails inside the except block (non-zero exit code, or
\* the command cannot be started) is not re-raised: no error leaves main, and
\* the run ends with its temporary directory released.
C15_BestEffort ==
  (pc = "done" /\ revert \in {"nonzero", "oserror"}) =>
    /\ "script_error" \notin logged
    /\ tmp_dir # "open"

\* C16: a run whose write of the new document failed ends as a failure: it
\* never invokes the restart command, never watches the log, and does not
\* report success.
C16_WriteFailure ==
  (pc = "done" /\ cause = "write") =>
    /\ restarts = 0
    /\ passes = 0 /\ watch = "none"
    /\ "success" \notin logged
    /\ ret # 0

\* The first line of a document that starts with UPDATE_STRING (0: none).
FirstMarker(content) ==
  IF \E i \in 1 .. Len(content) : StartsWithUpdate(content[i])
  THEN CHOOSE i \in 1 .. Len(content) :
         /\ StartsWithUpdate(content[i])
         /\ \A j \in 1 .. i - 1 : ~StartsWithUpdate(content[j])
  ELSE 0

\* The lines that start with UPDATE_STRING and whose rest parses.
ParsingMarkers(content) ==
  {i \in 1 .. Len(content) :
     StartsWithUpdate(content[i]) /\ StrptimeOk(content[i].arg, content[i].post)}

\* C17 as stated: the reader returns the timestamp of the first line that
\* starts with UPDATE_STRING when that line parses, and the epoch when there
\* is no such line or when that first one does not parse.
C17_FirstMarkerOnly ==
  (pc = "read" /\ writes = 0) =>
    LET i == FirstMarker(doc.content) IN
      last_update_utc =
        IF i # 0 /\ i \in ParsingMarkers(doc.content)
        THEN doc.content[i].arg.n
        ELSE Epoch

\* C17, amended: the reader returns the timestamp of the first line that
\* starts with UPDATE_STRING and parses, and the epoch when no line does;
\* lines after that one never determine the result.
C17_FirstParsing ==
  (pc = "read" /\ writes = 0) =>
    LET P == ParsingMarkers(doc.content) IN
      last_update_utc =
        IF P = {} THEN Epoch
        ELSE doc.content[CHOOSE i \in P : \A j \in P : i <= j].arg.n

C17_Witness ==
  /\ pc = "read"
  /\ writes = 0
  /\ Len(doc.content) = MaxLines
  /\ FirstMarker(doc.content) = 1
  /\ ParsingMarkers(doc.content) = {MaxLines}
  /\ doc.content[MaxLines].arg.n = MaxVersion
  /\ last_update_utc = MaxVersion

\* C18: when the restart command run after the write exits with a non-zero
\* code, the run enters the except block: the log is never watched, and after
\* the block the written document is gone and the backup, if one was made, is
\* back in place.
C18_RestartFailure ==
  traefik_restart_proc = "nonzero" =>
    /\ cause = "restart"
    /\ pc \in {"rollback", "finish", "done"}
    /\ passes = 0 /\ watch = "none"
    /\ pc # "rollback" =>
         /\ RolledBack
         /\ doc = IF docAtStart.exists THEN docAtStart ELSE NoFile

C18_Witness ==
  /\ traefik_restart_proc = "nonzero"
  /\ pc = "finish"
  /\ docAtStart.exists
  /\ doc = docAtStart
  /\ revert = "zero"
  /\ passes = 0

\* C19: the document when a run ends is the one the run found, or the newly
\* rendered one, or there is none.  It is the one the run found after an
\* up-to-date run, a failed fetch or validation, and a rollback with a backup;
\* it is the new one after an update that did not roll back; there is none
\* only when the run found none, and then after every rollback.
C19_DocAtEnd ==
  pc = "done" =>
    LET new == File(write_yaml_config(DEFAULT_MIDDLEWARE_HEADER, remote)) IN
      /\ doc \in {docAtStart, new, NoFile}
      /\ docAtStart.exists => doc.exists
      /\ (~docAtStart.exists /\ RolledBack) => doc = NoFile
      /\ (docAtStart.exists /\ Outcome \in {"uptodate", "failed", "rolledback"})
           => doc = docAtStart
      /\ Outcome = "updated" => doc = new

C19_Witness ==
  /\ pc = "done"
  /\ docAtStart.exists
  /\ cause = "write"
  /\ RolledBack
  /\ doc = docAtStart
  /\ doc # File(write_yaml_config(DEFAULT_MIDDLEWARE_HEADER, remote))

\* C20: a run invokes the restart command at most twice, at most once after
\* the write and at most once in the except block, and never before the
\* write: not in a run whose fetch or validation failed, not in a run that
\* found its document up to date.
C20_RestartBound ==
  /\ restarts <= 2
  /\ restarts = (IF traefik_restart_proc # "none" THEN 1 ELSE 0)
                + (IF revert # "none" THEN 1 ELSE 0)
  /\ pc \in {"fetch", "decide", "write"} => restarts = 0
  /\ (data # NoBody /\ C5_BadBody(data)) => restarts = 0
  /\ (Decided /\ docAtStart.exists /\ LocalVersion >= remote.last_update_utc)
       => restarts = 0

C20_Witness ==
  /\ pc = "done"
  /\ restarts = 2
  /\ traefik_restart_proc = "zero"
  /\ revert = "nonzero"
  /\ cause = "watch"

====
